---- MODULE Spec2Model ----
(***************************************************************************)
(* A model of thermal_printer_rs: the bitmap transmitter                   *)
(* Printer::print_bitmap (src/src/printing.rs) writing to its file handle  *)
(* byte by byte, the packed bit-plane BitImage (src/src/bitimage.rs), and  *)
(* the resize and dither loop of Printer::print_image.                     *)
(***************************************************************************)
EXTENDS Integers, Sequences, FiniteSets, TLC

VARIABLES
    pc,           \* position of the print_bitmap or print_image call
    debug,        \* TRUE: built with debug_assertions (overflow checks on)
    width,        \* argument width of print_bitmap (u16) or print_image (u32)
    height,       \* print_bitmap argument height, print_image local height
    w_bytes,      \* print_bitmap argument w_bytes: usize
    bitmap,       \* print_bitmap argument bitmap: &[u8]
    cmd,          \* the local Vec<u8> cmd
    last_pos,     \* the local last_pos: usize
    last_height,  \* the local last_height: u16
    range_end,    \* the local range_end of the current iteration
    idx,          \* write_vec: 1-based index of the next byte of cmd
    io,           \* what the file handle and the clock saw, in order
    frames,       \* every cmd handed to write_vec, in order
    shorts_left,  \* how many more writes the sink may accept 0 bytes of
    image,        \* the BitImage struct: bytes, width, height, w_bytes
    ctor,         \* the arguments BitImage::new was called with
    last,         \* the last BitImage call and its outcome
    nops,         \* number of BitImage calls made so far
    pixels,       \* the value of the last successful set_pixel on each pixel
    src,          \* print_image: width and height of the image just opened
    img,          \* print_image: the resized Luma<u8> image img
    grayscale,    \* print_image: the working buffer, grayscale[x][y]
    pos,          \* print_image: how many pixels of img the loop has taken
    error,        \* print_image: the local error of the last iteration
    errs          \* the error of every pixel quantized so far, in order

vars == <<pc, debug, width, height, w_bytes, bitmap, cmd, last_pos,
          last_height, range_end, idx, io, frames, shorts_left,
          image, ctor, last, nops, pixels, src, img, grayscale, pos, error, errs>>

printerVars == <<pc, debug, width, height, w_bytes, bitmap, cmd, last_pos,
                 last_height, range_end, idx, io, frames, shorts_left>>

imageVars == <<image, ctor, last, nops, pixels>>

ditherVars == <<src, img, grayscale, pos, error, errs>>

-----------------------------------------------------------------------------
(* Bounds of the model *)

MaxHeight == 129
MaxBytes == 258
MaxShort == 1
MaxShortBytes == 70
MaxW == 9
MaxH == 2
MaxOps == 2
MaxSrcW == 3
MaxSrcH == 2
MaxWidth == 3
MaxSeed == 255
MaxLoopW == 2
MaxLoopHeight == 2
MaxLoopLen == 3

-----------------------------------------------------------------------------
(* Program constants *)

GS == 29
flush_height == 64
height_step_double == 2 * flush_height
height_step == 32
FORM_FEED == 12
U16 == 65536
MaxDotWidth == 382

-----------------------------------------------------------------------------
(* Helpers *)

Min(a, b) == IF a < b THEN a ELSE b

\* Ord::clamp(self, min, max)
Clamp(v, lo, hi) == IF v < lo THEN lo ELSE IF v > hi THEN hi ELSE v

\* (w as f64 / 8.0).ceil() as usize
CeilDiv8(w) == IF w % 8 = 0 THEN w \div 8 ELSE (w \div 8) + 1

\* u16::to_be_bytes
to_be_bytes(num) == <<num \div 256, num % 256>>

\* <[u8]>::reverse on a two-byte array
reverse2(b) == <<b[2], b[1]>>

to_two_byte_be(num) == to_be_bytes(num)

\* Printer::to_two_byte
to_two_byte(num) == reverse2(to_be_bytes(num))

\* the test pattern the bitmaps are filled with: all bytes of a bitmap of up
\* to 256 bytes differ, and the first one is the form-feed byte
BitmapOf(len) == [i \in 1..len |-> (12 + 37 * (i - 1)) % 256]

-----------------------------------------------------------------------------
(* Printer::print_bitmap, src/src/printing.rs *)

\* the calls the model makes: print_image's call shape (w_bytes =
\* ceil(width/8), bitmap of w_bytes * height bytes) for every height up to
\* MaxHeight, and calls whose bitmap does not hold w_bytes * height bytes
Widths == {8, 16, 382, 383}

Matched ==
    {a \in {[width |-> w, height |-> h, w_bytes |-> CeilDiv8(w), len |-> CeilDiv8(w) * h] :
                w \in Widths, h \in 0..MaxHeight} : a.len <= MaxBytes}

Mismatched ==
    {[width |-> 8, height |-> 1, w_bytes |-> 1, len |-> 70],
     [width |-> 8, height |-> 100, w_bytes |-> 1, len |-> 36],
     [width |-> 2400, height |-> 1, w_bytes |-> 300, len |-> 2],
     [width |-> 0, height |-> 0, w_bytes |-> 0, len |-> 0]}

Inputs == Matched \cup Mismatched

\* u16 arithmetic: a debug build panics on overflow, a release build wraps
Overflows(a, b) == a + b >= U16
WrapAdd(a, b) == (a + b) % U16
Underflows(a, b) == a < b
WrapSub(a, b) == (a - b + U16) % U16

RangeEndStep32(lp, wb, len) == Clamp(lp + (wb * height_step), 0, len)

\* line 187
RangeEnd(lp, wb, len) == Clamp(lp + (wb * flush_height), 0, len)

\* line 188
NextHeight(lh, h) == Clamp(WrapAdd(lh, flush_height), 0, h)

\* line 189
PartHeight(nh, lh) == WrapSub(nh, lh)

\* line 194: &bitmap[last_pos..range_end]
Payload(bm, lp, re) == SubSeq(bm, lp + 1, re)

\* lines 191-193
Header(wb, ph) == <<GS, 118, 48, 0>> \o to_two_byte(wb % U16) \o to_two_byte(ph)

write_byte_ignore(res) == "continue"

\* the match on the result of file_handle.write / flush, lines 42-45, 49-52
write_byte_match(res) == IF res = "err" THEN "panicked" ELSE "continue"

AfterChunkAlwaysSleep(re, len) == "sleep"

\* lines 204-207: break, or sleep and go round again
AfterChunk(re, len) == IF re = len THEN "dump" ELSE "sleep"

\* what a write of one byte can answer: Ok(1), Err, or Ok(0) (nothing taken)
WriteResults == {"ok", "err"} \cup (IF shorts_left > 0 THEN {"short"} ELSE {})

\* the call: lines 176-185
print_bitmap ==
    /\ pc = "idle"
    /\ \E a \in Inputs :
        /\ shorts_left > 0 => a.len <= MaxShortBytes
        /\ width' = a.width
        /\ height' = a.height
        /\ w_bytes' = a.w_bytes
        /\ bitmap' = BitmapOf(a.len)
    /\ cmd' = <<>>
    /\ last_pos' = 0
    /\ last_height' = 0
    /\ pc' = "chunk"
    /\ UNCHANGED <<debug, range_end, idx, io, frames, shorts_left, imageVars, ditherVars>>

\* lines 187-194 and the call of write_vec on line 196
BuildFrame ==
    /\ pc = "chunk"
    /\ LET re == RangeEnd(last_pos, w_bytes, Len(bitmap))
           nh == NextHeight(last_height, height)
           ph == PartHeight(nh, last_height)
       IN  IF debug /\ (Overflows(last_height, flush_height) \/ Underflows(nh, last_height))
           THEN /\ pc' = "panicked"
                /\ UNCHANGED <<range_end, cmd, frames, idx>>
           ELSE /\ range_end' = re
                /\ cmd' = cmd \o Header(w_bytes, ph) \o Payload(bitmap, last_pos, re)
                /\ frames' = Append(frames, cmd')
                /\ idx' = 1
                /\ pc' = "write_vec"
    /\ UNCHANGED <<debug, width, height, w_bytes, bitmap, last_pos, last_height,
                   io, shorts_left, imageVars, ditherVars>>

\* one iteration of write_vec's loop, lines 106-108: write_byte, lines 41-46
write_byte ==
    /\ pc = "write_vec"
    /\ idx <= Len(cmd)
    /\ \E res \in WriteResults :
        /\ io' = Append(io, <<IF res = "ok" THEN "write" ELSE
                              IF res = "short" THEN "short" ELSE "write_err", cmd[idx]>>)
        /\ shorts_left' = IF res = "short" THEN shorts_left - 1 ELSE shorts_left
        /\ IF write_byte_match(res) = "panicked"
           THEN pc' = "panicked" /\ idx' = idx
           ELSE /\ idx' = idx + 1
                /\ pc' = IF idx + 1 > Len(cmd) THEN "flush" ELSE "write_vec"
    /\ UNCHANGED <<debug, width, height, w_bytes, bitmap, cmd, last_pos, last_height,
                   range_end, frames, imageVars, ditherVars>>

\* line 197: flush_buf, lines 48-53
flush_buf ==
    /\ pc = "flush"
    /\ \E res \in {"ok", "err"} :
        /\ io' = Append(io, <<IF res = "ok" THEN "flush" ELSE "flush_err", 0>>)
        /\ pc' = IF write_byte_match(res) = "panicked" THEN "panicked" ELSE "form_feed"
    /\ UNCHANGED <<debug, width, height, w_bytes, bitmap, cmd, last_pos, last_height,
                   range_end, idx, frames, shorts_left, imageVars, ditherVars>>

\* line 198: print_bytes(&[0x0c]), lines 93-99: write_all, then flush_buf.
\* write_all turns a write of 0 bytes into an error.
print_bytes ==
    /\ pc = "form_feed"
    /\ \E res \in {"ok", "err"}, fres \in {"ok", "err"} :
        IF res = "err"
        THEN /\ io' = Append(io, <<"write_err", FORM_FEED>>)
             /\ pc' = "panicked"
        ELSE /\ io' = io \o <<<<"write", FORM_FEED>>,
                              <<IF fres = "ok" THEN "flush" ELSE "flush_err", 0>>>>
             /\ pc' = IF write_byte_match(fres) = "panicked" THEN "panicked" ELSE "advance"
    /\ UNCHANGED <<debug, width, height, w_bytes, bitmap, cmd, last_pos, last_height,
                   range_end, idx, frames, shorts_left, imageVars, ditherVars>>

\* lines 199-206
Advance ==
    /\ pc = "advance"
    /\ IF debug /\ Overflows(last_height, height_step)
       THEN /\ pc' = "panicked"
            /\ UNCHANGED <<cmd, last_height, last_pos>>
       ELSE /\ cmd' = <<>>
            /\ last_height' = WrapAdd(last_height, height_step)
            /\ last_pos' = range_end
            /\ pc' = AfterChunk(range_end, Len(bitmap))
    /\ UNCHANGED <<debug, width, height, w_bytes, bitmap, range_end, idx, io, frames,
                   shorts_left, imageVars, ditherVars>>

\* line 207
sleep ==
    /\ pc = "sleep"
    /\ io' = Append(io, <<"sleep", 1500>>)
    /\ pc' = "chunk"
    /\ UNCHANGED <<debug, width, height, w_bytes, bitmap, cmd, last_pos, last_height,
                   range_end, idx, frames, shorts_left, imageVars, ditherVars>>

\* lines 212-230: the debug build prints bitmap[j + i * w_bytes] for every
\* i < height, j < w_bytes, and panics on an index past the end of the bitmap
Return ==
    /\ pc = "dump"
    /\ pc' = IF debug /\ height > 0 /\ w_bytes > 0 /\ height * w_bytes > Len(bitmap)
             THEN "panicked" ELSE "done"
    /\ UNCHANGED <<debug, width, height, w_bytes, bitmap, cmd, last_pos, last_height,
                   range_end, idx, io, frames, shorts_left, imageVars, ditherVars>>

-----------------------------------------------------------------------------
(* BitImage, src/src/bitimage.rs *)

\* u8 bit arithmetic
Pow2(k) == 2 ^ k
Bit(b, k) == (b \div Pow2(k)) % 2
BitOr(a, b) ==
    LET f[k \in 0..8] ==
            IF k = 8 THEN 0
            ELSE (IF Bit(a, k) = 1 \/ Bit(b, k) = 1 THEN Pow2(k) ELSE 0) + f[k + 1]
    IN  f[0]
BitAnd(a, b) ==
    LET f[k \in 0..8] ==
            IF k = 8 THEN 0
            ELSE (IF Bit(a, k) = 1 /\ Bit(b, k) = 1 THEN Pow2(k) ELSE 0) + f[k + 1]
    IN  f[0]
BitNot(a) == 255 - a
Shr(a, n) == a \div Pow2(n)
Shl(a, n) == (a * Pow2(n)) % 256

BitImage_new_floor(w, h) ==
    [bytes |-> [i \in 1..((w \div 8) * h) |-> 0], width |-> w, height |-> h,
     w_bytes |-> w \div 8]

\* BitImage::new, lines 32-43. Vec::with_capacity allocates exactly the
\* capacity asked for, so the loop over 0..capacity() pushes that many zeros.
BitImage_new(w, h) ==
    [bytes |-> [i \in 1..(CeilDiv8(w) * h) |-> 0], width |-> w, height |-> h,
     w_bytes |-> CeilDiv8(w)]

is_within_bounds_and(self, x, y) ==
    ~(x < 0 /\ x >= self.width /\ y < 0 /\ y >= self.height)

\* is_within_bounds, lines 57-61: FALSE where the code panics
is_within_bounds(self, x, y) ==
    ~(x < 0 \/ x >= self.width \/ y < 0 \/ y >= self.height)

set_position_lsb(x) == Shl(1, x % 8)

\* line 75: 128 >> x % 8
set_position(x) == Shr(128, x % 8)

byte_pos_unit_stride(self, x, y) == (x \div 8) + y

\* line 76: (x as f64 / 8.0).floor() as usize + (y as usize * self.w_bytes)
byte_pos(self, x, y) == (x \div 8) + (y * self.w_bytes)

\* line 65: 1 << x % 8
get_position(x) == Shl(1, x % 8)

\* set_pixel, lines 73-86, as a function of the image: ok is FALSE where
\* the code panics (out of bounds, or no byte at byte_pos)
set_pixel_result(self, x, y, val) ==
    IF ~is_within_bounds(self, x, y) \/ byte_pos(self, x, y) \notin 0..(Len(self.bytes) - 1)
    THEN [ok |-> FALSE, image |-> self]
    ELSE LET position == set_position(x)
             at == byte_pos(self, x, y) + 1
             pixel_byte == self.bytes[at]
         IN  [ok |-> TRUE,
              image |-> [self EXCEPT !.bytes[at] =
                            IF val THEN BitOr(pixel_byte, position)
                            ELSE BitAnd(pixel_byte, BitNot(position))]]

\* no set_pixel made yet on any pixel of a w x h image
NoPixels(w, h) == [p \in (0..(w - 1)) \X (0..(h - 1)) |-> FALSE]

\* pixels once set_pixel(x, y, val) has returned r
Recorded(r, x, y, val) == IF r.ok THEN [pixels EXCEPT ![<<x, y>>] = val] ELSE pixels

\* set_pixel, lines 73-86
set_pixel ==
    /\ nops < MaxOps
    /\ \E x \in (-1)..image.width, y \in (-1)..image.height, val \in BOOLEAN :
        LET r == set_pixel_result(image, x, y, val)
        IN  /\ image' = r.image
            /\ pixels' = Recorded(r, x, y, val)
            /\ last' = [op |-> "set", x |-> x, y |-> y, val |-> val,
                        res |-> IF r.ok THEN "ok" ELSE "panic"]
    /\ nops' = nops + 1
    /\ UNCHANGED <<ctor, printerVars, ditherVars>>

\* get_pixel, lines 63-71
get_pixel ==
    /\ nops < MaxOps
    /\ \E x \in (-1)..image.width, y \in (-1)..image.height :
        IF ~is_within_bounds(image, x, y)
              \/ (x \div 8) + (y * image.w_bytes) \notin 0..(Len(image.bytes) - 1)
        THEN last' = [op |-> "get", x |-> x, y |-> y, val |-> FALSE, res |-> "panic"]
        ELSE LET position == get_position(x)
                 pixel_byte == image.bytes[(x \div 8) + (y * image.w_bytes) + 1]
             IN  last' = [op |-> "get", x |-> x, y |-> y,
                          val |-> (BitOr(pixel_byte, position) = pixel_byte), res |-> "ok"]
    /\ nops' = nops + 1
    /\ UNCHANGED <<image, pixels, ctor, printerVars, ditherVars>>

-----------------------------------------------------------------------------
(* Printer::print_image, src/src/printing.rs: the resize and the dither loop *)

\* f32 arithmetic on small positive numbers: a value is m / 2^k with m
\* rounded to 24 bits, ties to even
RoundHalfEven(n, d) ==
    LET q == n \div d
        r == n % d
    IN  IF 2 * r > d \/ (2 * r = d /\ q % 2 = 1) THEN q + 1 ELSE q

RECURSIVE f32_norm(_, _, _)
f32_norm(n, d, k) ==
    IF n >= d * 8388608 THEN [n |-> n, k |-> k] ELSE f32_norm(2 * n, d, k + 1)

\* a as f32 / b as f32
f32_div(a, b) ==
    IF a = 0 THEN [m |-> 0, k |-> 0]
    ELSE LET nk == f32_norm(a, b, 0)
         IN  [m |-> RoundHalfEven(nk.n, b), k |-> nk.k]

RECURSIVE f32_excess(_, _)
f32_excess(p, s) == IF p < 16777216 * Pow2(s) THEN s ELSE f32_excess(p, s + 1)

\* h as f32 * f
f32_mul(h, f) ==
    LET p == h * f.m
        s == f32_excess(p, 0)
    IN  [m |-> RoundHalfEven(p, Pow2(s)), k |-> f.k - s]

\* f as u32
f32_to_u32(f) == IF f.k >= 0 THEN f.m \div Pow2(f.k) ELSE f.m * Pow2(0 - f.k)

\* line 285: (img.height() as f32 * (width as f32 / img.width() as f32)) as u32
image_height(sw, sh, w) == f32_to_u32(f32_mul(sh, f32_div(w, sw)))

\* f64::round on n / d, n >= 0
RoundDiv(n, d) == ((2 * n) + d) \div (2 * d)

\* line 286: DynamicImage::resize keeps the aspect ratio and gives the
\* largest image that fits in nwidth x nheight, no side shorter than 1
resize_dimensions(sw, sh, nwidth, nheight) ==
    LET by_width == nwidth * sh <= nheight * sw
        w2 == IF by_width THEN nwidth ELSE RoundDiv(sw * nheight, sh)
        h2 == IF by_width THEN RoundDiv(sh * nwidth, sw) ELSE nheight
    IN  [width |-> IF w2 < 1 THEN 1 ELSE w2, height |-> IF h2 < 1 THEN 1 ELSE h2]

\* the lightness of pixel (x, y) of the resized image, lines 288-304, as the
\* inputs of the model have it: "lcg" gives pixel (0, 0) every value of
\* 0..255 as the seed runs, "binary" only 0 and 255, "columns" 0 in the even
\* columns and 255 in the odd ones
Lightness(kind, seed, w2, x, y) ==
    IF kind = "lcg" THEN ((seed * 37) + (x * 101) + (y * 59) + (x * y * 13)) % 256
    ELSE IF kind = "binary" THEN 255 * Bit(seed % 256, (x + (w2 * y)) % 8)
    ELSE IF x % 2 = 0 THEN 0 ELSE 255

PrintImageInputs ==
    {[sw |-> sw, sh |-> sh, width |-> w, kind |-> kind, seed |-> seed] :
        sw \in 1..MaxSrcW, sh \in 1..MaxSrcH, w \in 0..MaxWidth,
        kind \in {"lcg", "binary"}, seed \in 0..MaxSeed}
    \cup {[sw |-> 16, sh |-> 8, width |-> 16, kind |-> "columns", seed |-> 0]}

\* the in-bounds test of the local get_pixel, set_pixel and add_error,
\* lines 244, 261, 272
in_vector(vector, x, y) ==
    x >= 0 /\ x < Len(vector) /\ y >= 0 /\ y < Len(vector[1])

\* the local fn get_pixel, lines 243-258
gray_get_pixel(vector, x, y) ==
    IF in_vector(vector, x, y) THEN vector[x + 1][y + 1] ELSE 0

\* the local fn set_pixel, lines 260-268
gray_set_pixel(vector, x, y, val) ==
    IF in_vector(vector, x, y) THEN [vector EXCEPT ![x + 1][y + 1] = val] ELSE vector

\* f32::round of n / 16: halves go away from zero
round_16(n) == IF n >= 0 THEN (n + 8) \div 16 ELSE 0 - ((8 - n) \div 16)

add_error_truncating(vector, x, y, val, importance) ==
    LET n == val * importance
        err == IF n >= 0 THEN n \div 16 ELSE 0 - ((0 - n) \div 16)
    IN  IF in_vector(vector, x, y)
        THEN [vector EXCEPT ![x + 1][y + 1] = Clamp(@ + err, 0, 255)]
        ELSE vector

\* the local fn add_error, lines 270-279
add_error(vector, x, y, val, importance) ==
    LET err == round_16(val * importance)
    IN  IF in_vector(vector, x, y)
        THEN [vector EXCEPT ![x + 1][y + 1] = Clamp(@ + err, 0, 255)]
        ELSE vector

is_light_from_127(v) == v >= 127

\* line 326: x if x > 127
is_light(v) == v > 127

diffuse_backwards(vector, x, y, e) ==
    add_error(add_error(add_error(add_error(vector,
        x - 1, y, e, 7), x - 1, y + 1, e, 3), x, y + 1, e, 5), x + 1, y + 1, e, 1)

diffuse_wrapping(vector, x, y, e) ==
    LET w == Len(vector)
    IN  add_error(add_error(add_error(add_error(vector,
            (x + 1) % w, y, e, 7), (x + w - 1) % w, y + 1, e, 3), x, y + 1, e, 5),
            (x + 1) % w, y + 1, e, 1)

diffuse_three(vector, x, y, e) ==
    add_error(add_error(add_error(vector,
        x + 1, y, e, 7), x - 1, y + 1, e, 3), x, y + 1, e, 5)

\* lines 340-343
diffuse(vector, x, y, e) ==
    add_error(add_error(add_error(add_error(vector,
        x + 1, y, e, 7), x - 1, y + 1, e, 3), x, y + 1, e, 5), x + 1, y + 1, e, 1)

\* lines 281-318: open, resize, lightness, the working buffer and the canvas
print_image ==
    /\ pc = "idle"
    /\ \E a \in PrintImageInputs :
       \E h \in {image_height(a.sw, a.sh, a.width)} :
       \E dim \in {resize_dimensions(a.sw, a.sh, a.width, h)} :
       \E lum \in {[i \in 1..(dim.width * dim.height) |->
                       Lightness(a.kind, a.seed, dim.width,
                                 (i - 1) % dim.width, (i - 1) \div dim.width)]} :
            /\ src' = [width |-> a.sw, height |-> a.sh]
            /\ width' = a.width
            /\ height' = h
            /\ img' = [width |-> dim.width, height |-> dim.height, px |-> lum]
            /\ grayscale' = [x \in 1..a.width |-> [y \in 1..h |->
                                IF x <= dim.width /\ y <= dim.height
                                THEN lum[((y - 1) * dim.width) + x] ELSE 0]]
            /\ image' = BitImage_new(a.width, h)
            /\ pixels' = NoPixels(a.width, h)
            /\ ctor' = [w |-> a.width, h |-> h]
    /\ pos' = 0
    /\ error' = 0
    /\ errs' = <<>>
    /\ pc' = "dither"
    /\ UNCHANGED <<debug, w_bytes, bitmap, cmd, last_pos, last_height, range_end, idx,
                   io, frames, shorts_left, last, nops>>

\* one iteration of the loop over img.enumerate_pixels(), lines 320-344;
\* enumerate_pixels goes along each row, the rows from the top. unwrap()
\* on grayscale.get(0) panics when the buffer has no column; put_pixel on
\* the (width + 1) x (height + 1) dithered_img cannot fail after line 321.
dither_pixel ==
    /\ pc = "dither"
    /\ pos < img.width * img.height
    /\ LET x == pos % img.width
           y == pos \div img.width
       IN  IF Len(grayscale) = 0
           THEN /\ pc' = "panicked"
                /\ UNCHANGED <<grayscale, image, pixels, pos, error, errs>>
           ELSE IF x > Len(grayscale) \/ y > Len(grayscale[1])
           THEN /\ pos' = pos + 1
                /\ pc' = IF pos + 1 = img.width * img.height THEN "dithered" ELSE "dither"
                /\ UNCHANGED <<grayscale, image, pixels, error, errs>>
           ELSE LET v == gray_get_pixel(grayscale, x, y)
                    light == is_light(v)
                    quantized == gray_set_pixel(grayscale, x, y, IF light THEN 255 ELSE 0)
                    e == IF light THEN v - 255 ELSE v
                    r == set_pixel_result(image, x, y, ~light)
                IN  /\ error' = e
                    /\ image' = r.image
                    /\ pixels' = Recorded(r, x, y, ~light)
                    /\ IF r.ok
                       THEN /\ grayscale' = diffuse(quantized, x, y, e)
                            /\ errs' = Append(errs, e)
                            /\ pos' = pos + 1
                            /\ pc' = IF pos + 1 = img.width * img.height
                                     THEN "dithered" ELSE "dither"
                       ELSE /\ grayscale' = quantized
                            /\ pc' = "panicked"
                            /\ UNCHANGED <<pos, errs>>
    /\ UNCHANGED <<debug, width, height, w_bytes, bitmap, cmd, last_pos, last_height,
                   range_end, idx, io, frames, shorts_left, ctor, last, nops, src, img>>

DitherIdle ==
    /\ src = [width |-> 0, height |-> 0]
    /\ img = [width |-> 0, height |-> 0, px |-> <<>>]
    /\ grayscale = <<>>
    /\ pos = 0
    /\ error = 0
    /\ errs = <<>>

\* a Printer on which print_bitmap has not been called yet
PrinterInit ==
    /\ pc = "idle"
    /\ width = 0
    /\ height = 0
    /\ w_bytes = 0
    /\ bitmap = <<>>
    /\ cmd = <<>>
    /\ last_pos = 0
    /\ last_height = 0
    /\ range_end = 0
    /\ idx = 1
    /\ io = <<>>
    /\ frames = <<>>

ImageIdle ==
    /\ image = [bytes |-> <<>>, width |-> 0, height |-> 0, w_bytes |-> 0]
    /\ pixels = NoPixels(0, 0)
    /\ ctor = [w |-> 0, h |-> 0]
    /\ last = [op |-> "new", x |-> 0, y |-> 0, val |-> FALSE, res |-> "ok"]
    /\ nops = 0

\* a debug or a release build, and a sink that takes every byte it is given
\* or fails
Init == PrinterInit /\ debug \in BOOLEAN /\ shorts_left = 0 /\ ImageIdle /\ DitherIdle

Next ==
    \/ print_bitmap
    \/ BuildFrame
    \/ write_byte
    \/ flush_buf
    \/ print_bytes
    \/ Advance
    \/ sleep
    \/ Return

Spec == Init /\ [][Next]_vars

\* a sink whose write may also answer Ok(0)
InitShort == PrinterInit /\ debug \in BOOLEAN /\ shorts_left = MaxShort /\ ImageIdle /\ DitherIdle

SpecShort == InitShort /\ [][Next]_vars

\* an image fresh from BitImage::new, and no print job
InitImage ==
    /\ PrinterInit
    /\ debug = FALSE
    /\ shorts_left = 0
    /\ \E w \in 0..MaxW, h \in 0..MaxH :
        /\ image = BitImage_new(w, h)
        /\ pixels = NoPixels(w, h)
        /\ ctor = [w |-> w, h |-> h]
    /\ last = [op |-> "new", x |-> 0, y |-> 0, val |-> FALSE, res |-> "ok"]
    /\ nops = 0
    /\ DitherIdle

NextImage ==
    \/ set_pixel
    \/ get_pixel

SpecImage == InitImage /\ [][NextImage]_vars

\* print_bitmap's chunk loop as a loop: any w_bytes, height and bitmap
\* length, the tallest bitmap a u16 height allows and a bitmap of more
\* rows than its height; the bytes given to the sink not recorded
LoopInputs ==
    {[width |-> 8 * wb, height |-> h, w_bytes |-> wb, len |-> len] :
        wb \in 0..MaxLoopW, h \in 0..MaxLoopHeight, len \in 0..MaxLoopLen}
    \cup {[width |-> 8, height |-> h, w_bytes |-> 1, len |-> h] :
              h \in {MaxHeight, U16 - 1}}
    \cup {[width |-> 8, height |-> 1, w_bytes |-> 1, len |-> flush_height + 1]}

\* the call: lines 176-185
print_bitmap_entry ==
    /\ pc = "idle"
    /\ \E a \in LoopInputs :
        /\ width' = a.width
        /\ height' = a.height
        /\ w_bytes' = a.w_bytes
        /\ bitmap' = BitmapOf(a.len)
    /\ cmd' = <<>>
    /\ last_pos' = 0
    /\ last_height' = 0
    /\ pc' = "chunk"
    /\ UNCHANGED <<debug, range_end, idx, io, frames, shorts_left, imageVars, ditherVars>>

\* one turn of the loop, lines 186-208: the frame is built and handed to
\* a sink that takes it or fails, then the cursors move and the loop
\* breaks or sleeps and goes round again
chunk_loop ==
    /\ pc = "chunk"
    /\ LET re == RangeEnd(last_pos, w_bytes, Len(bitmap))
           nh == NextHeight(last_height, height)
       IN  IF debug /\ (\/ Overflows(last_height, flush_height)
                        \/ Underflows(nh, last_height)
                        \/ Overflows(last_height, height_step))
           THEN /\ pc' = "panicked"
                /\ UNCHANGED <<range_end, last_height, last_pos>>
           ELSE \E res \in {"ok", "err"} :
                IF write_byte_match(res) = "panicked"
                THEN /\ pc' = "panicked"
                     /\ UNCHANGED <<range_end, last_height, last_pos>>
                ELSE /\ range_end' = re
                     /\ last_height' = WrapAdd(last_height, height_step)
                     /\ last_pos' = re
                     /\ pc' = IF AfterChunk(re, Len(bitmap)) = "dump" THEN "dump" ELSE "chunk"
    /\ UNCHANGED <<debug, width, height, w_bytes, bitmap, cmd, idx, io, frames,
                   shorts_left, imageVars, ditherVars>>

InitLoop == PrinterInit /\ debug \in BOOLEAN /\ shorts_left = 0 /\ ImageIdle /\ DitherIdle

NextLoop ==
    \/ print_bitmap_entry
    \/ chunk_loop
    \/ Return

\* the loop with a sink and a scheduler that never stop it: every step
\* that can be taken is taken in the end
SpecLoop == InitLoop /\ [][NextLoop]_vars /\ WF_vars(NextLoop)

\* print_image up to the call of print_bitmap on line 352
InitDither == PrinterInit /\ debug = FALSE /\ shorts_left = 0 /\ ImageIdle /\ DitherIdle

NextDither ==
    \/ print_image
    \/ dither_pixel

SpecDither == InitDither /\ [][NextDither]_vars

-----------------------------------------------------------------------------
(* Reading the frames and the io record *)

HdrWidth(f) == f[5] + 256 * f[6]
HdrHeight(f) == f[7] + 256 * f[8]
FramePayload(f) == SubSeq(f, 9, Len(f))

\* the call is of print_image's shape: a bitmap of w_bytes * height bytes
MatchedCall == pc # "idle" /\ w_bytes >= 1 /\ Len(bitmap) = w_bytes * height

CeilDiv(a, b) == (a + b - 1) \div b

RECURSIVE Payloads(_)
Payloads(fs) ==
    IF fs = <<>> THEN <<>>
    ELSE Payloads(SubSeq(fs, 1, Len(fs) - 1)) \o FramePayload(fs[Len(fs)])

\* the calls a frame costs: one write per byte, a flush, the form feed, a flush
FrameIo(f) ==
    [i \in 1..Len(f) |-> <<"write", f[i]>>]
        \o <<<<"flush", 0>>, <<"write", FORM_FEED>>, <<"flush", 0>>>>

RECURSIVE JobIo(_)
JobIo(fs) ==
    IF fs = <<>> THEN <<>>
    ELSE IF Len(fs) = 1 THEN FrameIo(fs[1])
    ELSE JobIo(SubSeq(fs, 1, Len(fs) - 1)) \o <<<<"sleep", 1500>>>> \o FrameIo(fs[Len(fs)])

\* the calls made, whatever the sink answered them
CallOf(e) ==
    IF e[1] \in {"write", "short", "write_err"} THEN <<"write", e[2]>>
    ELSE IF e[1] \in {"flush", "flush_err"} THEN <<"flush", 0>>
    ELSE e
Calls == [i \in 1..Len(io) |-> CallOf(io[i])]

IsWrite(e) == e[1] = "write"
Accepted == [i \in 1..Len(SelectSeq(io, IsWrite)) |-> SelectSeq(io, IsWrite)[i][2]]

IsSleep(e) == e[1] = "sleep"
LastFailed == io # <<>> /\ io[Len(io)][1] \in {"write_err", "flush_err"}

RECURSIVE WithFormFeeds(_)
WithFormFeeds(fs) ==
    IF fs = <<>> THEN <<>>
    ELSE WithFormFeeds(SubSeq(fs, 1, Len(fs) - 1)) \o fs[Len(fs)] \o <<FORM_FEED>>

-----------------------------------------------------------------------------
(* The claims *)

\* C1: in every frame of a call with a bitmap of w_bytes * height bytes and
\* w_bytes >= 1, the payload after the 8-byte header has w_bytes times the
\* header's chunk height bytes, for every height.
C1_PayloadIsHeaderHeight ==
    MatchedCall =>
        \A k \in 1..Len(frames) :
            Len(frames[k]) - 8 = w_bytes * HdrHeight(frames[k])

\* C2: a bitmap of height H >= 1 is sent in ceil(H/64) frames, every frame but
\* the last with header height 64 and the last with the rows that remain.
C2_HeaderHeights ==
    (MatchedCall /\ height >= 1 /\ pc = "done") =>
        /\ Len(frames) = CeilDiv(height, flush_height)
        /\ \A k \in 1..(Len(frames) - 1) : HdrHeight(frames[k]) = flush_height
        /\ HdrHeight(frames[Len(frames)]) = height - flush_height * (Len(frames) - 1)

\* C3: frame k carries the bitmap bytes from k*64*w_bytes up to
\* min((k+1)*64*w_bytes, len), never more than 64 rows, and once the loop has
\* ended the payloads in order are the bitmap.
C3_PayloadsAreTheBitmap ==
    /\ \A k \in 1..Len(frames) :
        /\ FramePayload(frames[k]) =
              SubSeq(bitmap, (k - 1) * flush_height * w_bytes + 1,
                     Min(k * flush_height * w_bytes, Len(bitmap)))
        /\ Len(FramePayload(frames[k])) <= flush_height * w_bytes
    /\ pc \in {"dump", "done"} => Payloads(frames) = bitmap

C3_Witness ==
    /\ pc = "done"
    /\ MatchedCall
    /\ Len(frames) = 3
    /\ Len(FramePayload(frames[3])) = 1

\* C4: a call with a width above 382 dots writes nothing to the sink.
C4_WideIsRefused ==
    (pc # "idle" /\ width > MaxDotWidth) => io = <<>>

\* C5: every frame is 0x1D 0x76 0x30 0x00, w_bytes in two bytes low byte
\* first, the chunk height in two bytes low byte first, then the payload and
\* nothing more; to_two_byte(n) is [n mod 256, n div 256] for every u16 n.
C5_FrameLayout ==
    /\ \A k \in 1..Len(frames) :
        /\ SubSeq(frames[k], 1, 4) = <<29, 118, 48, 0>>
        /\ frames[k][5] = (w_bytes % U16) % 256
        /\ frames[k][6] = (w_bytes % U16) \div 256
    /\ pc \in {"write_vec", "flush", "form_feed", "advance"} =>
        LET f == frames[Len(frames)]
            part == (Min((last_height + flush_height) % U16, height) - last_height) % U16
        IN  /\ f[7] = part % 256
            /\ f[8] = part \div 256
            /\ Len(f) = 8 + (range_end - last_pos)
            /\ cmd = f
    /\ pc = "idle" => \A n \in 0..(U16 - 1) : to_two_byte(n) = <<n % 256, n \div 256>>

C5_Witness ==
    /\ pc = "flush"
    /\ w_bytes = 300
    /\ frames[1][5] = 44
    /\ frames[1][6] = 1

\* C6: per chunk the sink is given every byte of the frame, a flush, the form
\* feed and a flush, before anything of the next frame; the 1.5 s sleep comes
\* once between consecutive chunks and never after the last one.
C6_ChunkOrder ==
    /\ pc \in {"advance", "sleep", "dump", "done"} => Calls = JobIo(frames)
    /\ (pc = "chunk" /\ frames # <<>>) =>
        /\ Calls = JobIo(frames) \o <<<<"sleep", 1500>>>>
        /\ Len(Payloads(frames)) < Len(bitmap)
    /\ pc = "done" => Len(SelectSeq(io, IsSleep)) = Len(frames) - 1

C6_Witness ==
    /\ pc = "done"
    /\ Len(frames) = 3
    /\ Len(SelectSeq(io, IsSleep)) = 2

\* C7: once a write or a flush has failed nothing more reaches the sink, and
\* what the sink was given before stays as it was.
C7_FailureStops ==
    [][/\ LastFailed => io' = io
       /\ Len(io') >= Len(io)
       /\ SubSeq(io', 1, Len(io)) = io]_vars

C7_Witness ==
    /\ pc = "panicked"
    /\ LastFailed
    /\ Len(frames) = 2
    /\ idx > 8

\* C8: when print_bitmap returns, the sink has accepted every header and
\* payload byte of every frame, also when a write may answer Ok(0).
C8_NothingSwallowed ==
    pc = "done" => Accepted = WithFormFeeds(frames)

\* C9: BitImage::new(w, h) gives ceil(w/8)*h zero bytes, and the length, the
\* width, the height and the stride stay what they were after any calls of
\* set_pixel and get_pixel, failed ones included.
C9_BufferShape ==
    /\ Len(image.bytes) = ((ctor.w + 7) \div 8) * ctor.h
    /\ image.width = ctor.w
    /\ image.height = ctor.h
    /\ image.w_bytes = (ctor.w + 7) \div 8
    /\ nops = 0 => \A i \in 1..Len(image.bytes) : image.bytes[i] = 0

C9_Witness ==
    /\ nops = 2
    /\ ctor = [w |-> 9, h |-> 2]
    /\ last.res = "panic"
    /\ image.bytes = <<0, 0, 0, 128>>

\* C10: for every in-bounds (x, y), set_pixel(x, y, v) succeeds and makes bit
\* 7 - x mod 8 of byte y*stride + floor(x/8) equal to v, and nothing else
\* changes.
C10_MsbFirst ==
    [][(nops' = nops + 1 /\ last'.op = "set") =>
        LET x == last'.x
            y == last'.y
            k == 7 - (x % 8)
            at == y * ((ctor.w + 7) \div 8) + (x \div 8) + 1
        IN  IF 0 <= x /\ x < ctor.w /\ 0 <= y /\ y < ctor.h
            THEN /\ last'.res = "ok"
                 /\ image'.bytes =
                      [image.bytes EXCEPT ![at] =
                          @ - (Bit(@, k) * (2 ^ k)) + (IF last'.val THEN 2 ^ k ELSE 0)]
            ELSE last'.res = "panic"]_vars

C10_Witness ==
    /\ nops = 2
    /\ last = [op |-> "set", x |-> 8, y |-> 1, val |-> TRUE, res |-> "ok"]
    /\ ctor = [w |-> 9, h |-> 2]
    /\ image.bytes = <<0, 0, 128, 128>>

\* C11: get_pixel(x, y) called right after a successful set_pixel(x, y, v)
\* returns v.
C11_RoundTrip ==
    [][(/\ last.op = "set"
        /\ last.res = "ok"
        /\ nops' = nops + 1
        /\ last'.op = "get"
        /\ last'.x = last.x
        /\ last'.y = last.y) => (last'.res = "ok" /\ last'.val = last.val)]_vars

-----------------------------------------------------------------------------
(* print_image: the dither loop *)

\* the pixel the loop takes next
pix_x == pos % img.width
pix_y == pos \div img.width

\* the step quantizes pixel (pix_x, pix_y) of the working buffer
Quantizes == pc = "dither" /\ Len(errs') = Len(errs) + 1

\* the bit of pixel (x, y) in the canvas, most significant bit first
CanvasBit(canvas, x, y) == Bit(canvas.bytes[byte_pos(canvas, x, y) + 1], 7 - (x % 8))

\* C13: a pixel whose current value v is at most 127 gets its canvas bit set
\* and error v; one above 127 gets its bit cleared and error v - 255; the
\* error is within -127..127.
C13_Threshold ==
    [][Quantizes =>
        LET v == grayscale[pix_x + 1][pix_y + 1]
        IN  /\ v <= 127 => (CanvasBit(image', pix_x, pix_y) = 1 /\ error' = v)
            /\ v > 127 => (CanvasBit(image', pix_x, pix_y) = 0 /\ error' = v - 255)
            /\ error' \in -127..127]_vars

C13_Witness ==
    /\ pos = 1
    /\ img.px[1] = 127
    /\ error = 127
    /\ CanvasBit(image, 0, 0) = 1

Abs(n) == IF n < 0 THEN 0 - n ELSE n

\* the integer nearest to n / 16, the one further from zero when two are
\* equally near
NearestTo16th(n) ==
    CHOOSE r \in ((n \div 16) - 1)..((n \div 16) + 1) :
        \/ Abs((16 * r) - n) < 8
        \/ Abs((16 * r) - n) = 8 /\ Abs(16 * r) > Abs(n)

\* the sixteenths of the error of (x, y) that (cx, cy) is given
Weight(x, y, cx, cy) ==
    IF cx = x + 1 /\ cy = y THEN 7
    ELSE IF cx = x - 1 /\ cy = y + 1 THEN 3
    ELSE IF cx = x /\ cy = y + 1 THEN 5
    ELSE IF cx = x + 1 /\ cy = y + 1 THEN 1
    ELSE 0

\* C14: the step that quantizes (x, y) with error e leaves (x, y) at 0 or
\* 255, changes each neighbour in the buffer to its old value plus
\* round(e * k / 16), halves away from zero, clamped to 0..255, and leaves
\* every other sample as it was.
C14_Propagation ==
    [][Quantizes =>
        \A cx \in 0..(width - 1), cy \in 0..(height - 1) :
            LET old == grayscale[cx + 1][cy + 1]
                new == grayscale'[cx + 1][cy + 1]
                k == Weight(pix_x, pix_y, cx, cy)
            IN  IF cx = pix_x /\ cy = pix_y THEN new \in {0, 255}
                ELSE IF k # 0 THEN new = Clamp(old + NearestTo16th(error' * k), 0, 255)
                ELSE new = old]_vars

C14_Witness ==
    /\ pos = 1
    /\ width >= 2 /\ height >= 1 /\ img.width >= 2
    /\ error = 8
    /\ grayscale[2][1] = img.px[2] + 4

\* the sample the working buffer holds at (x, y) before the loop,
\* lines 308-318
InputSample(x, y) ==
    IF x < img.width /\ y < img.height THEN img.px[(y * img.width) + x + 1] ELSE 0

BufferPixels == (0..(width - 1)) \X (0..(height - 1))

\* C15: when every sample of the input buffer is 0 or 255, the finished
\* dither has spread no error and the canvas bit of each pixel is set
\* exactly when its sample is 0; for 16x8 alternating columns the first
\* byte is 0b10101010.
C15_BinaryInput ==
    (pc = "dithered" /\ \A p \in BufferPixels : InputSample(p[1], p[2]) \in {0, 255})
        => /\ \A i \in 1..Len(errs) : errs[i] = 0
           /\ \A p \in BufferPixels :
                (CanvasBit(image, p[1], p[2]) = 1) <=> (InputSample(p[1], p[2]) = 0)
           /\ (width = 16 /\ height = 8 /\ \A p \in BufferPixels :
                   InputSample(p[1], p[2]) = (IF p[1] % 2 = 0 THEN 0 ELSE 255))
                => image.bytes[1] = 170

InBuffer(x, y) == x >= 0 /\ x < width /\ y >= 0 /\ y < height

\* what a step adds to the sample at (x, y), nothing outside the buffer
Gain(x, y) == IF InBuffer(x, y) THEN grayscale'[x + 1][y + 1] - grayscale[x + 1][y + 1] ELSE 0

\* the total the four propagation steps of a quantizing step add
Added ==
    Gain(pix_x + 1, pix_y) + Gain(pix_x - 1, pix_y + 1)
        + Gain(pix_x, pix_y + 1) + Gain(pix_x + 1, pix_y + 1)

\* the four neighbours of (x, y) are in the buffer
Inside(x, y) == InBuffer(x - 1, y + 1) /\ InBuffer(x + 1, y + 1)

\* the share k / 16 of error e fits the sample at (x, y) without clamping
Fits(x, y, e, k) == (grayscale[x + 1][y + 1] + NearestTo16th(e * k)) \in 0..255

\* C16 as stated: on every quantizing step the total added to the buffer
\* differs from the error by at most 2.
C16_FullyDistributed ==
    [][Quantizes => Abs(Added - error') <= 2]_vars

\* C16, amended: when the four neighbours of the pixel are in the buffer
\* and no share is cut by the clamp, the total added differs from the error
\* by at most 2.
C16_DistributedInside ==
    [][(/\ Quantizes
        /\ Inside(pix_x, pix_y)
        /\ Fits(pix_x + 1, pix_y, error', 7)
        /\ Fits(pix_x - 1, pix_y + 1, error', 3)
        /\ Fits(pix_x, pix_y + 1, error', 5)
        /\ Fits(pix_x + 1, pix_y + 1, error', 1))
        => Abs(Added - error') <= 2]_vars

\* the sample at (x, y) once pixel (0, 0) has been quantized
AfterFirst(x, y) ==
    Clamp(InputSample(x, y) + NearestTo16th(Weight(0, 0, x, y) * errs[1]), 0, 255)

\* pixel (1, 0) of a 3x2 buffer has spread error 8 as 4 + 2 + 3 + 1
C16_Witness ==
    /\ pos = 2 /\ width = 3 /\ height = 2
    /\ error = 8
    /\ grayscale[3][1] = AfterFirst(2, 0) + 4
    /\ grayscale[1][2] = AfterFirst(0, 1) + 2
    /\ grayscale[2][2] = AfterFirst(1, 1) + 3
    /\ grayscale[3][2] = AfterFirst(2, 1) + 1

\* sh * w / sw rounded to the nearest integer, halves up
image_height_rounded(sw, sh, w) == ((2 * sh * w) + sw) \div (2 * sw)

\* C17: for a source of src.width x src.height and a target width of at
\* least 1, the height of the working buffer and of the canvas is
\* round(src.height * width / src.width).
C17_RoundedHeight ==
    (pc # "idle" /\ width >= 1)
        => /\ height = image_height_rounded(src.width, src.height, width)
           /\ \A x \in 1..width : Len(grayscale[x]) = height
           /\ image.height = height

\* C18: every call of print_bitmap, w_bytes = 0 with a bitmap that is not
\* empty included, comes to its end or fails.
C18_LoopEnds == (pc = "chunk") ~> (pc \in {"done", "panicked"})

\* a step leaves the sample at (x, y) as it was
Kept(x, y) == grayscale'[x + 1][y + 1] = grayscale[x + 1][y + 1]

\* what C19 says of the columns: the error of a pixel in the last column
\* does not reach column 0 of the next row, that of a pixel in column 0
\* does not reach the last column
NoWraparound ==
    /\ (pix_x = width - 1 /\ InBuffer(0, pix_y + 1)) => Kept(0, pix_y + 1)
    /\ (pix_x = 0 /\ width > 1) => Kept(width - 1, pix_y)
    /\ (pix_x = 0 /\ InBuffer(width - 1, pix_y + 1)) => Kept(width - 1, pix_y + 1)

\* a share whose neighbour is outside the buffer changes no sample, and the
\* error of a last-row pixel changes no sample of another row
DroppedOutside ==
    \A p \in BufferPixels :
        (p # <<pix_x, pix_y>> /\ (Weight(pix_x, pix_y, p[1], p[2]) = 0
                                    \/ (pix_y = height - 1 /\ p[2] # pix_y)))
            => Kept(p[1], p[2])

\* C19 as stated, for buffers of every width.
C19_NoWraparound ==
    [][Quantizes => (NoWraparound /\ DroppedOutside)]_vars

\* C19, amended: the same, the two statements about columns for buffers
\* at least 3 columns wide.
C19_NoWraparoundWide ==
    [][Quantizes => ((width >= 3 => NoWraparound) /\ DroppedOutside)]_vars

\* the last pixel of row 0 of a 3x2 buffer has been quantized with an error
\* of at least 16, and (0, 1) holds what pixels (0, 0) and (1, 0) gave it
C19_Witness ==
    /\ pos = 3 /\ width = 3 /\ height = 2
    /\ Abs(error) >= 16
    /\ grayscale[1][2] = Clamp(AfterFirst(0, 1) + NearestTo16th(3 * errs[2]), 0, 255)

\* the error pixel (x, y) of img was quantized with
ErrorOf(x, y) == errs[(y * img.width) + x + 1]

\* v with the share k / 16 of the error of (x, y), a pixel of img taken
\* before the current one
WithShare(v, x, y, k) ==
    IF x >= 0 /\ x < img.width /\ y >= 0
    THEN Clamp(v + NearestTo16th(k * ErrorOf(x, y)), 0, 255)
    ELSE v

\* the input sample at (x, y) with the shares of its four predecessors, in
\* the order they were quantized
WithPredecessors(x, y) ==
    WithShare(WithShare(WithShare(WithShare(InputSample(x, y),
        x - 1, y - 1, 1), x, y - 1, 5), x + 1, y - 1, 3), x - 1, y, 7)

\* C20: the pixels are taken along each row, the rows from the top; the
\* pixel to be quantized next holds its input and the shares of (x-1, y-1),
\* (x, y-1), (x+1, y-1) and (x-1, y); every pixel taken so far still holds 0
\* or 255 and its canvas bit is set exactly when it holds 0.
C20_RasterOrder ==
    pc \in {"dither", "dithered"} =>
        /\ Len(errs) = pos
        /\ (pos < img.width * img.height /\ InBuffer(pix_x, pix_y))
              => grayscale[pix_x + 1][pix_y + 1] = WithPredecessors(pix_x, pix_y)
        /\ \A i \in 0..(pos - 1) :
              LET x == i % img.width
                  y == i \div img.width
              IN  /\ grayscale[x + 1][y + 1] \in {0, 255}
                  /\ (CanvasBit(image, x, y) = 1) <=> (grayscale[x + 1][y + 1] = 0)

C20_Witness ==
    /\ pc = "dithered" /\ width = 3 /\ height = 2 /\ pos = 6
    /\ \A i \in 1..6 : Abs(errs[i]) >= 16
    /\ image.bytes[1] \notin {0, 224}

\* the bit stored for column x of row y, pixel or padding, in a canvas
\* made by BitImage::new(ctor.w, ctor.h)
StoredBit(x, y) ==
    Bit(image.bytes[(y * ((ctor.w + 7) \div 8)) + (x \div 8) + 1], 7 - (x % 8))

\* C21: after any calls of set_pixel on a fresh canvas the bit of each pixel
\* is the value of the last successful set_pixel on it, 0 if there was
\* none, and the padding bits of each row are 0.
C21_OnlyThatBit ==
    /\ \A p \in DOMAIN pixels : (StoredBit(p[1], p[2]) = 1) <=> pixels[p]
    /\ \A y \in 0..(ctor.h - 1) : \A x \in ctor.w..((8 * ((ctor.w + 7) \div 8)) - 1) :
          StoredBit(x, y) = 0

C21_Witness ==
    /\ nops = 2
    /\ ctor = [w |-> 9, h |-> 2]
    /\ last = [op |-> "set", x |-> 0, y |-> 1, val |-> TRUE, res |-> "ok"]
    /\ pixels[<<8, 0>>] /\ pixels[<<0, 1>>]
    /\ image.bytes = <<0, 128, 128, 0>>

\* C22: at the top of every turn of the loop of a call with w_bytes >= 1
\* and a bitmap of w_bytes * height bytes, last_height <= next_height <=
\* height and last_height + 64 fits a u16.
C22_HeightsInOrder ==
    (pc = "chunk" /\ w_bytes >= 1 /\ Len(bitmap) = w_bytes * height)
        => LET next_height == Clamp(last_height + 64, 0, height)
           IN  /\ last_height <= next_height
               /\ next_height <= height
               /\ last_height + 64 <= 65535

\* the third and last turn of a call of 129 rows: row 128 is left
C22_Witness ==
    /\ pc = "chunk"
    /\ height = 129 /\ w_bytes = 1 /\ Len(bitmap) = 129
    /\ last_pos = 128
    /\ last_height = 64

\* C23: for a target width of at least 1 the dither loop skips every pixel
\* of the resized image that is outside the width x height canvas, and so
\* never ends in a panic.
C23_LoopCannotAbort ==
    [][(pc = "dither" /\ width >= 1)
        => /\ pc' # "panicked"
           /\ ~InBuffer(pix_x, pix_y) => (pos' = pos + 1 /\ image' = image)]_vars

=============================================================================
